---- MODULE Spec2Model ----
(***************************************************************************)
(* CameraDisplay (ctapipe/visualization/mpl.py): a camera geometry drawn   *)
(* as a collection of hexagonal markers on a matplotlib axes, with an      *)
(* image array that draw_image replaces, a colour map that set_cmap        *)
(* replaces and moment ellipses that add_moment_ellipse overlays.          *)
(*                                                                         *)
(* Python objects are records; an object's identity is its id field.  An   *)
(* attribute that may be None is a sequence of at most one element.  A     *)
(* numpy array is [shape, data], data being the array in flat (C) order.   *)
(* Angles in radians are rational multiples of pi, [num, den]; pixel radii *)
(* are integers and marker sizes are in units of pi.                       *)
(***************************************************************************)
EXTENDS Integers, Sequences, FiniteSets

VARIABLES
    phase,      \* "new": CameraDisplay(...) not called yet; "ready": __init__ returned; "failed": __init__ raised
    geom,       \* the CameraGeometry handed to the constructor (self.geom)
    axes,       \* the matplotlib axes (self.axes): aspect, collections, patches, labels
    pixels,     \* self.pixels: None, or the RegularPolyCollection
    cmap,       \* self.cmap
    nextId,     \* identity of the next object created
    redraws,    \* number of plt.draw() calls so far
    rendered,   \* what the last plt.draw() drew: None, or a snapshot of the surface
    call,       \* the last call made on the display: operation, arguments, outcome
    prev,       \* the call made before it
    ncalls      \* calls made per operation and outcome

vars == <<phase, geom, axes, pixels, cmap, nextId, redraws, rendered, call, prev, ncalls>>

----------------------------------------------------------------------------
(* Bounds of the model. *)

MaxPix == 3         \* geometries have 0..MaxPix pixels, images first dimension 0..MaxPix
MaxOps == 4         \* calls made on a constructed display

(* Program constants. *)

SizeScale == 550    \* radii*np.pi*550
NumSides == 6       \* numsides=6

----------------------------------------------------------------------------
(* Python values. *)

None == <<>>
Some(x) == <<x>>

Min(a, b) == IF a <= b THEN a ELSE b

RECURSIVE Prod(_)
Prod(s) == IF s = <<>> THEN 1 ELSE Head(s) * Prod(Tail(s))

\* a numpy array of the given shape with the given flat data
Array(shape, data) == [shape |-> shape, data |-> [i \in 1..Prod(shape) |-> data[i]]]

\* a bug: np.ones_like(a)
ones_like(a) == [shape |-> a.shape, data |-> [i \in DOMAIN a.data |-> 1]]

\* np.zeros_like(a)
zeros_like(a) == [shape |-> a.shape, data |-> [i \in DOMAIN a.data |-> 0]]

\* list(zip(xx, yy))
zip(xx, yy) == [i \in 1..Min(Len(xx), Len(yy)) |-> <<xx[i], yy[i]>>]

\* a bug: the angle is left in radians (rounded towards minus infinity)
radians(phi) == (3 * phi.num) \div phi.den

\* np.degrees(phi), phi = (num/den) * pi radians
degrees(phi) == (180 * phi.num) \div phi.den

\* CameraDisplay._radius_to_size
_radius_to_size(radii) == [i \in DOMAIN radii |-> radii[i] * SizeScale]

----------------------------------------------------------------------------
(* Inputs. *)

PixTypes == {"hexagonal", "rectangular"}

\* a geometry of n pixels on a grid two pixels wide: (0,0), (1,0), (0,1), ...
Geometry(n, type) ==
    [pix_x |-> Array(<<n>>, [i \in 1..n |-> (i - 1) % 2]),
     pix_y |-> Array(<<n>>, [i \in 1..n |-> (i - 1) \div 2]),
     pix_r |-> Array(<<n>>, [i \in 1..n |-> 1]),
     unit |-> "m",
     pix_type |-> type]

Geometries == {Geometry(n, t) : n \in 0..MaxPix, t \in PixTypes}

Titles == {"Camera"}

\* colour maps handed to set_cmap
Cmaps == {"hot", "gray"}

\* image data: 1, 2, 3, ... or 2, 3, 4, ...
Ramp(shape, b) == Array(shape, [i \in 1..Prod(shape) |-> b + i - 1])

\* one-dimensional images of 0..MaxPix values, and two-dimensional images of
\* 1..MaxPix rows of one value
Images ==
    {Ramp(<<n>>, b) : n \in 0..MaxPix, b \in {1, 2}}
        \cup {Ramp(<<n, 1>>, 1) : n \in 1..MaxPix}

\* len(image)
len(image) == image.shape[1]

\* centroid, length, width, phi, style
EllipseArgs ==
    {[centroid |-> <<0, 0>>, length |-> 2, width |-> 1,
      phi |-> [num |-> 1, den |-> 4], kwargs |-> [color |-> "default"]],
     [centroid |-> <<1, 2>>, length |-> 3, width |-> 1,
      phi |-> [num |-> -5, den |-> 2], kwargs |-> [color |-> "red"]],
     [centroid |-> <<1, 2>>, length |-> 2, width |-> 2,
      phi |-> [num |-> 2, den |-> 1], kwargs |-> [color |-> "default"]]}

Assymmetries == {0, 1}

----------------------------------------------------------------------------
(* The record of the last call. *)

NoImage == [shape |-> <<>>, data |-> <<>>]

NoCall ==
    [op |-> "none", cmap |-> "", image |-> NoImage, centroid |-> <<>>,
     length |-> 0, width |-> 0, phi |-> [num |-> 0, den |-> 1],
     assymmetry |-> 0, kwargs |-> [color |-> "default"],
     result |-> "", returned |-> None]

NoCalls == [set_cmap |-> 0, draw_ok |-> 0, draw_failed |-> 0, add_moment_ellipse |-> 0]

TotalCalls ==
    ncalls.set_cmap + ncalls.draw_ok + ncalls.draw_failed + ncalls.add_moment_ellipse

----------------------------------------------------------------------------
(* matplotlib. *)

\* a fresh axes
NewAxes ==
    [aspect |-> "auto", collections |-> <<>>, patches |-> <<>>,
     title |-> "", xlabel |-> <<>>, ylabel |-> <<>>, autoscaled |-> FALSE]

\* RegularPolyCollection(numsides, rotation, offsets, sizes, transOffset)
RegularPolyCollection(id, numsides, offsets, sizes) ==
    [id |-> id, numsides |-> numsides, offsets |-> offsets, sizes |-> sizes,
     cmap |-> "default", linewidth |-> 1, array |-> None]

\* a bug: the new values are added to the stored ones
set_array_accumulate(coll, A) ==
    [coll EXCEPT !.array =
        IF @ = None THEN Some(A)
        ELSE Some([A EXCEPT !.data = [i \in DOMAIN A.data |-> @[i] + coll.array[1].data[i]]])]

\* Collection.set_array
set_array(coll, A) == [coll EXCEPT !.array = Some(A)]

\* Collection.set_cmap, Collection.set_linewidth
coll_set_cmap(coll, c) == [coll EXCEPT !.cmap = c]
coll_set_linewidth(coll, lw) == [coll EXCEPT !.linewidth = lw]

\* Axes.add_collection
add_collection(ax, coll) == [ax EXCEPT !.collections = Append(@, coll.id)]

\* a bug: the new patch replaces the patches of the axes
add_patch_replace(ax, p) == [ax EXCEPT !.patches = <<p>>]

\* Axes.add_patch
add_patch(ax, p) == [ax EXCEPT !.patches = Append(@, p)]

\* Ellipse(xy, width, height, angle, fill, **kwargs)
Ellipse(id, xy, width, height, angle, fill, kwargs) ==
    [id |-> id, xy |-> xy, width |-> width, height |-> height,
     angle |-> angle, fill |-> fill, style |-> kwargs]

\* plt.draw(): the surface as it is when drawn
plt_draw(ax, pix) ==
    Some([array |-> pix[1].array, cmap |-> pix[1].cmap,
          patches |-> [i \in DOMAIN ax.patches |-> ax.patches[i].id]])

----------------------------------------------------------------------------
(* The display. *)

Init ==
    /\ phase = "new"
    /\ geom \in Geometries
    /\ axes = NewAxes
    /\ pixels = None
    /\ cmap = "none"
    /\ nextId = 1
    /\ redraws = 0
    /\ rendered = None
    /\ call = NoCall
    /\ prev = NoCall
    /\ ncalls = NoCalls

\* a bug: the pixel type is checked after the collection is added to the axes
__init__check_last(title) ==
    /\ phase = "new"
    /\ cmap' = "jet"
    /\ LET offsets == zip(geom.pix_x.data, geom.pix_y.data)
           p0 == RegularPolyCollection(nextId, NumSides, offsets,
                                       _radius_to_size(geom.pix_r.data))
           p3 == set_array(coll_set_linewidth(coll_set_cmap(p0, "jet"), 0),
                           zeros_like(geom.pix_x))
           ax2 == add_collection([axes EXCEPT !.aspect = "equal"], p3)
       IN /\ pixels' = Some(p3)
          /\ nextId' = nextId + 1
          /\ IF geom.pix_type = "hexagonal"
             THEN /\ axes' = [ax2 EXCEPT !.title = title,
                                         !.xlabel = <<"X position", geom.unit>>,
                                         !.ylabel = <<"Y position", geom.unit>>,
                                         !.autoscaled = TRUE]
                  /\ phase' = "ready"
                  /\ call' = [NoCall EXCEPT !.op = "__init__", !.result = "ok"]
             ELSE /\ axes' = ax2
                  /\ phase' = "failed"
                  /\ call' = [NoCall EXCEPT !.op = "__init__", !.result = "ValueError"]
    /\ prev' = call
    /\ UNCHANGED <<geom, redraws, rendered, ncalls>>

\* CameraDisplay.__init__(geometry, axes, title)
__init__(title) ==
    /\ phase = "new"
    /\ cmap' = "jet"
    /\ LET xx == geom.pix_x.data
           yy == geom.pix_y.data
           rr == geom.pix_r.data
           offsets == zip(xx, yy)
           ax1 == [axes EXCEPT !.aspect = "equal"]
       IN IF geom.pix_type = "hexagonal"
          THEN LET p0 == RegularPolyCollection(nextId, NumSides, offsets,
                                               _radius_to_size(rr))
                   p1 == coll_set_cmap(p0, "jet")
                   p2 == coll_set_linewidth(p1, 0)
                   p3 == set_array(p2, zeros_like(geom.pix_x))
                   ax2 == add_collection(ax1, p3)
               IN /\ pixels' = Some(p3)
                  /\ nextId' = nextId + 1
                  /\ axes' = [ax2 EXCEPT !.title = title,
                                         !.xlabel = <<"X position", geom.unit>>,
                                         !.ylabel = <<"Y position", geom.unit>>,
                                         !.autoscaled = TRUE]
                  /\ phase' = "ready"
                  /\ call' = [NoCall EXCEPT !.op = "__init__", !.result = "ok"]
          ELSE /\ pixels' = None
               /\ nextId' = nextId
               /\ axes' = ax1
               /\ phase' = "failed"
               /\ call' = [NoCall EXCEPT !.op = "__init__", !.result = "ValueError"]
    /\ prev' = call
    /\ UNCHANGED <<geom, redraws, rendered, ncalls>>

\* a bug: the collection is built anew with the colour map
set_cmap_recreate(c) ==
    /\ phase = "ready"
    /\ TotalCalls < MaxOps
    /\ LET p == [pixels[1] EXCEPT !.id = nextId, !.cmap = c]
       IN /\ pixels' = Some(p)
          /\ axes' = [axes EXCEPT !.collections = <<p.id>>]
    /\ nextId' = nextId + 1
    /\ call' = [NoCall EXCEPT !.op = "set_cmap", !.cmap = c, !.result = "ok"]
    /\ ncalls' = [ncalls EXCEPT !.set_cmap = @ + 1]
    /\ prev' = call
    /\ UNCHANGED <<phase, geom, cmap, redraws, rendered>>

\* a bug: the colour map is stored on the display, not on the collection
set_cmap_self(c) ==
    /\ phase = "ready"
    /\ TotalCalls < MaxOps
    /\ cmap' = c
    /\ call' = [NoCall EXCEPT !.op = "set_cmap", !.cmap = c, !.result = "ok"]
    /\ ncalls' = [ncalls EXCEPT !.set_cmap = @ + 1]
    /\ prev' = call
    /\ UNCHANGED <<phase, geom, axes, pixels, nextId, redraws, rendered>>

\* CameraDisplay.set_cmap(cmap)
set_cmap(c) ==
    /\ phase = "ready"
    /\ TotalCalls < MaxOps
    /\ pixels' = Some(coll_set_cmap(pixels[1], c))
    /\ call' = [NoCall EXCEPT !.op = "set_cmap", !.cmap = c, !.result = "ok"]
    /\ ncalls' = [ncalls EXCEPT !.set_cmap = @ + 1]
    /\ prev' = call
    /\ UNCHANGED <<phase, geom, axes, cmap, nextId, redraws, rendered>>

\* a bug: the array is stored before the shapes are compared
draw_image_set_first(image) ==
    /\ phase = "ready"
    /\ TotalCalls < MaxOps
    /\ pixels' = Some(set_array(pixels[1], image))
    /\ IF image.shape # geom.pix_x.shape
       THEN /\ call' = [NoCall EXCEPT !.op = "draw_image", !.image = image,
                                      !.result = "ValueError"]
            /\ ncalls' = [ncalls EXCEPT !.draw_failed = @ + 1]
            /\ UNCHANGED <<redraws, rendered>>
       ELSE /\ rendered' = plt_draw(axes, pixels')
            /\ redraws' = redraws + 1
            /\ call' = [NoCall EXCEPT !.op = "draw_image", !.image = image,
                                      !.result = "ok"]
            /\ ncalls' = [ncalls EXCEPT !.draw_ok = @ + 1]
    /\ prev' = call
    /\ UNCHANGED <<phase, geom, axes, cmap, nextId>>

\* a bug: the array is checked and drawn but never stored
draw_image_no_store(image) ==
    /\ phase = "ready"
    /\ TotalCalls < MaxOps
    /\ IF image.shape # geom.pix_x.shape
       THEN /\ call' = [NoCall EXCEPT !.op = "draw_image", !.image = image,
                                      !.result = "ValueError"]
            /\ ncalls' = [ncalls EXCEPT !.draw_failed = @ + 1]
            /\ UNCHANGED <<pixels, redraws, rendered>>
       ELSE /\ pixels' = pixels
            /\ rendered' = plt_draw(axes, pixels)
            /\ redraws' = redraws + 1
            /\ call' = [NoCall EXCEPT !.op = "draw_image", !.image = image,
                                      !.result = "ok"]
            /\ ncalls' = [ncalls EXCEPT !.draw_ok = @ + 1]
    /\ prev' = call
    /\ UNCHANGED <<phase, geom, axes, cmap, nextId>>

\* a bug: the surface is drawn before the array is stored
draw_image_draw_first(image) ==
    /\ phase = "ready"
    /\ TotalCalls < MaxOps
    /\ IF image.shape # geom.pix_x.shape
       THEN /\ call' = [NoCall EXCEPT !.op = "draw_image", !.image = image,
                                      !.result = "ValueError"]
            /\ ncalls' = [ncalls EXCEPT !.draw_failed = @ + 1]
            /\ UNCHANGED <<pixels, redraws, rendered>>
       ELSE /\ rendered' = plt_draw(axes, pixels)
            /\ redraws' = redraws + 1
            /\ pixels' = Some(set_array(pixels[1], image))
            /\ call' = [NoCall EXCEPT !.op = "draw_image", !.image = image,
                                      !.result = "ok"]
            /\ ncalls' = [ncalls EXCEPT !.draw_ok = @ + 1]
    /\ prev' = call
    /\ UNCHANGED <<phase, geom, axes, cmap, nextId>>

\* CameraDisplay.draw_image(image)
draw_image(image) ==
    /\ phase = "ready"
    /\ TotalCalls < MaxOps
    /\ IF image.shape # geom.pix_x.shape
       THEN /\ call' = [NoCall EXCEPT !.op = "draw_image", !.image = image,
                                      !.result = "ValueError"]
            /\ ncalls' = [ncalls EXCEPT !.draw_failed = @ + 1]
            /\ UNCHANGED <<pixels, redraws, rendered>>
       ELSE LET p1 == Some(set_array(pixels[1], image))
            IN /\ pixels' = p1
               /\ rendered' = plt_draw(axes, p1)
               /\ redraws' = redraws + 1
               /\ call' = [NoCall EXCEPT !.op = "draw_image", !.image = image,
                                         !.result = "ok"]
               /\ ncalls' = [ncalls EXCEPT !.draw_ok = @ + 1]
    /\ prev' = call
    /\ UNCHANGED <<phase, geom, axes, cmap, nextId>>

\* CameraDisplay.add_moment_ellipse(centroid, length, width, phi, assymmetry, **kwargs)
add_moment_ellipse(centroid, length, width, phi, assymmetry, kwargs) ==
    /\ phase = "ready"
    /\ TotalCalls < MaxOps
    /\ LET ellipse == Ellipse(nextId, centroid, width, length, degrees(phi),
                              FALSE, kwargs)
           ax1 == add_patch(axes, ellipse)
       IN /\ axes' = ax1
          /\ nextId' = nextId + 1
          /\ rendered' = plt_draw(ax1, pixels)
          /\ redraws' = redraws + 1
          /\ call' = [NoCall EXCEPT !.op = "add_moment_ellipse",
                                    !.centroid = centroid, !.length = length,
                                    !.width = width, !.phi = phi,
                                    !.assymmetry = assymmetry, !.kwargs = kwargs,
                                    !.result = "ok", !.returned = Some(ellipse)]
    /\ ncalls' = [ncalls EXCEPT !.add_moment_ellipse = @ + 1]
    /\ prev' = call
    /\ UNCHANGED <<phase, geom, pixels, cmap>>

\* one call by the display's user
Next ==
    \/ \E title \in Titles : __init__(title)
    \/ \E c \in Cmaps : set_cmap(c)
    \/ \E image \in Images : draw_image(image)
    \/ \E e \in EllipseArgs, assymmetry \in Assymmetries :
            add_moment_ellipse(e.centroid, e.length, e.width, e.phi, assymmetry,
                               e.kwargs)

Spec == Init /\ [][Next]_vars

----------------------------------------------------------------------------
(* Vocabulary of the properties. *)

\* the geometry's pixel count
NPix == geom.pix_x.shape[1]

\* this step is a call of op on the constructed display
Made(op) == TotalCalls' = TotalCalls + 1 /\ call'.op = op

\* the arguments of a call, without its outcome
Args(c) == [c EXCEPT !.result = "", !.returned = None]

\* the identities of the overlays on the axes
PatchIds(ax) == {ax.patches[i].id : i \in DOMAIN ax.patches}

\* what the surface shows: value array, colour mapping, overlays
Surface == [array |-> pixels[1].array, cmap |-> pixels[1].cmap, overlays |-> axes.patches]

\* an array of n zeros
Zeros(n) == [shape |-> <<n>>, data |-> [i \in 1..n |-> 0]]

----------------------------------------------------------------------------
\* C1: a draw_image whose image length differs from the geometry's pixel count
\* fails with the shape-mismatch error (ValueError) and leaves the stored value
\* array as it was, whatever calls came before.
C1_MismatchKeepsArray ==
    [][(Made("draw_image") /\ len(call'.image) # NPix)
        => (call'.result = "ValueError" /\ pixels'[1].array = pixels[1].array)]_vars

C1_Witness ==
    /\ call.op = "draw_image" /\ call.result = "ValueError"
    /\ len(call.image) # NPix /\ NPix = 3
    /\ ncalls.draw_ok >= 1 /\ ncalls.set_cmap >= 1 /\ ncalls.add_moment_ellipse >= 1
    /\ pixels[1].array # Some(Zeros(3))

\* C2 as stated: a draw_image whose image length equals the geometry's pixel
\* count succeeds and the stored value array equals the image.
C2_LengthMatchStores ==
    [][(Made("draw_image") /\ len(call'.image) = NPix)
        => (call'.result = "ok" /\ pixels'[1].array = Some(call'.image))]_vars

\* C2 amended: a draw_image whose image shape equals the shape of the geometry's
\* pixel arrays (one dimension of pixel-count entries) succeeds and the stored
\* value array equals the image; an image of any other shape, also one of
\* pixel-count rows in two dimensions, fails with the shape-mismatch error.
C2_ShapeMatchStores ==
    [][Made("draw_image")
        => IF call'.image.shape = <<NPix>>
           THEN call'.result = "ok" /\ pixels'[1].array = Some(call'.image)
           ELSE call'.result = "ValueError"]_vars

\* the scenario: three pixels, draw_image([1,2,3]) has succeeded
C2_Witness ==
    /\ NPix = 3 /\ call.op = "draw_image" /\ call.result = "ok"
    /\ call.image = [shape |-> <<3>>, data |-> <<1, 2, 3>>]
    /\ pixels[1].array = Some(call.image)

\* C3: constructing from a geometry whose pixel type is not "hexagonal" fails
\* with the unsupported-shape error (ValueError), no collection having been added
\* to the axes.
C3_NonHexagonalFails ==
    (phase # "new" /\ geom.pix_type # "hexagonal")
        => /\ phase = "failed"
           /\ call.op = "__init__" /\ call.result = "ValueError"
           /\ axes.collections = <<>>

C3_Witness == phase = "failed" /\ geom.pix_type = "rectangular" /\ NPix = 3

\* C4 as stated: the display keeps the collection created at construction, of
\* pixel-count elements; of the collection only the value array changes, and only
\* through draw_image.
C4_OnlyArrayChanges ==
    /\ [](phase = "ready"
            => axes.collections = <<pixels[1].id>> /\ Len(pixels[1].offsets) = NPix)
    /\ [][phase = "ready"
            => /\ [pixels'[1] EXCEPT !.array = None] = [pixels[1] EXCEPT !.array = None]
               /\ (pixels'[1].array # pixels[1].array => Made("draw_image"))]_vars

\* C4 amended: the display keeps the collection created at construction, of
\* pixel-count elements; of the collection only the value array changes, through
\* a successful draw_image, and the colour mapping, through set_cmap.
C4_SameCollection ==
    /\ [](phase = "ready"
            => axes.collections = <<pixels[1].id>> /\ Len(pixels[1].offsets) = NPix)
    /\ [][phase = "ready"
            => LET p == pixels[1]
                   q == pixels'[1]
               IN /\ [q EXCEPT !.array = None, !.cmap = ""]
                        = [p EXCEPT !.array = None, !.cmap = ""]
                  /\ (q.array # p.array => Made("draw_image") /\ call'.result = "ok")
                  /\ (q.cmap # p.cmap => Made("set_cmap"))]_vars

C4_Witness ==
    /\ phase = "ready" /\ NPix = 3
    /\ ncalls.set_cmap >= 1 /\ ncalls.draw_ok >= 1
    /\ ncalls.draw_failed >= 1 /\ ncalls.add_moment_ellipse >= 1
    /\ pixels[1].cmap # "jet" /\ pixels[1].array # Some(Zeros(3))

\* C5: the overlay add_moment_ellipse returns has the given centroid as centre,
\* phi converted from radians to degrees as angle (angle/180 = phi/pi), the given
\* width as width and the given length as height, and is unfilled; no attribute
\* of it comes from assymmetry.
C5_EllipseFromArguments ==
    call.op = "add_moment_ellipse"
        => LET e == call.returned[1]
           IN /\ DOMAIN e = {"id", "xy", "width", "height", "angle", "fill", "style"}
              /\ e.xy = call.centroid
              /\ e.angle * call.phi.den = 180 * call.phi.num
              /\ e.width = call.width
              /\ e.height = call.length
              /\ e.fill = FALSE
              /\ e.style = call.kwargs

C5_Witness ==
    /\ call.op = "add_moment_ellipse" /\ call.assymmetry = 1
    /\ call.phi = [num |-> -5, den |-> 2] /\ call.returned[1].angle = -450
    /\ call.length = 3 /\ call.returned[1].height = 3 /\ call.returned[1].width = 1

\* C6 as stated: a call of set_cmap, draw_image or add_moment_ellipse that repeats
\* the call before it, with the same arguments, leaves value array, colour
\* mapping and overlays as they were.
C6_AllIdempotent ==
    [][(TotalCalls' = TotalCalls + 1 /\ Args(call') = Args(call))
        => Surface' = Surface]_vars

\* C6 amended: a call of set_cmap or draw_image that repeats the call before it
\* leaves value array, colour mapping and overlays as they were; a repeated
\* add_moment_ellipse leaves value array and colour mapping but adds one more
\* overlay.
C6_IdempotentButEllipse ==
    [][(TotalCalls' = TotalCalls + 1 /\ Args(call') = Args(call))
        => IF call'.op = "add_moment_ellipse"
           THEN /\ Surface'.array = Surface.array /\ Surface'.cmap = Surface.cmap
                /\ Len(axes'.patches) = Len(axes.patches) + 1
           ELSE Surface' = Surface]_vars

C6_Witness ==
    /\ call.op = "draw_image" /\ call.result = "ok" /\ NPix = 3
    /\ Args(prev) = Args(call)
    /\ pixels[1].array = Some(call.image)

\* C7: from construction until the first successful draw_image the collection
\* has one marker per pixel, at the pixel's position, outlined with width zero,
\* and its value array is one zero per pixel; set_cmap, add_moment_ellipse and
\* failing draw_image calls do not change that.
C7_ZerosUntilDrawn ==
    (phase = "ready" /\ ncalls.draw_ok = 0)
        => LET p == pixels[1]
           IN /\ Len(p.offsets) = NPix /\ Len(p.sizes) = NPix
              /\ \A i \in 1..NPix :
                    p.offsets[i] = <<geom.pix_x.data[i], geom.pix_y.data[i]>>
              /\ p.linewidth = 0
              /\ p.array = Some(Zeros(NPix))

C7_Witness ==
    /\ phase = "ready" /\ ncalls.draw_ok = 0 /\ NPix = 3
    /\ ncalls.set_cmap >= 1 /\ ncalls.draw_failed >= 1 /\ ncalls.add_moment_ellipse >= 1
    /\ pixels[1].array = Some(Zeros(3))

\* C8: every add_moment_ellipse puts exactly one new overlay on the axes and
\* returns that object; no call removes an overlay, so the overlays on the axes
\* are as many as the add_moment_ellipse calls made; add_moment_ellipse leaves
\* the display's collection, value array and colour mapping alone, and the
\* display's collection is none of the overlays.
C8_OverlaysOnlyAdded ==
    /\ [](phase = "ready"
            => /\ Len(axes.patches) = ncalls.add_moment_ellipse
               /\ Cardinality(PatchIds(axes)) = Len(axes.patches)
               /\ pixels[1].id \notin PatchIds(axes)
               /\ (call.op = "add_moment_ellipse"
                     => call.returned = Some(axes.patches[Len(axes.patches)])))
    /\ [][phase = "ready"
            => IF Made("add_moment_ellipse")
               THEN /\ axes'.patches = Append(axes.patches, call'.returned[1])
                    /\ pixels' = pixels /\ cmap' = cmap
               ELSE axes'.patches = axes.patches]_vars

C8_Witness ==
    /\ phase = "ready" /\ Len(axes.patches) = 2 /\ ncalls.add_moment_ellipse = 2
    /\ ncalls.draw_ok >= 1 /\ ncalls.set_cmap >= 1
    /\ call.op = "add_moment_ellipse"

\* C9: a successful draw_image redraws once, with the new value array already
\* in place; a failing draw_image does not redraw; add_moment_ellipse redraws
\* once, with the returned overlay already on the axes; set_cmap does not redraw.
C9_Redraws ==
    [][/\ (Made("draw_image") /\ call'.result = "ok")
            => /\ redraws' = redraws + 1
               /\ rendered' # None
               /\ rendered'[1].array = Some(call'.image)
       /\ (Made("draw_image") /\ call'.result # "ok")
            => redraws' = redraws /\ rendered' = rendered
       /\ Made("add_moment_ellipse")
            => /\ redraws' = redraws + 1
               /\ rendered' # None
               /\ Len(rendered'[1].patches) = Len(axes.patches) + 1
               /\ rendered'[1].patches[Len(axes.patches) + 1] = call'.returned[1].id
       /\ Made("set_cmap")
            => redraws' = redraws /\ rendered' = rendered]_vars

C9_Witness ==
    /\ redraws = 2 /\ ncalls.draw_ok = 1 /\ ncalls.add_moment_ellipse = 1
    /\ ncalls.set_cmap = 1 /\ ncalls.draw_failed = 1
    /\ call.op = "draw_image" /\ call.result = "ok"
    /\ rendered[1].array = Some(call.image) /\ Len(rendered[1].patches) = 1

\* C10: set_cmap takes the colour map as given and does not fail; afterwards the
\* collection's colour mapping is that colour map, and value array, marker count
\* and overlays are as before.
C10_SetCmapFrame ==
    [][Made("set_cmap")
        => /\ call'.result = "ok"
           /\ pixels'[1].cmap = call'.cmap
           /\ pixels'[1].array = pixels[1].array
           /\ Len(pixels'[1].offsets) = NPix
           /\ axes'.patches = axes.patches]_vars

C10_Witness ==
    /\ call.op = "set_cmap" /\ call.cmap = "gray" /\ pixels[1].cmap = "gray"
    /\ ncalls.draw_ok >= 1 /\ ncalls.add_moment_ellipse >= 1 /\ NPix = 3

====
